---- MODULE Spec2Model ----
(***************************************************************************)
(* flv-dump: the incremental FLV decoder (src/src/reader.rs) and the loop  *)
(* that drives it (src/src/main.rs).                                       *)
(*                                                                         *)
(* Bytes are integers 0..255.  An unsigned 32-bit value is kept as two     *)
(* 16-bit halves [hi, lo] (value = hi * 2^16 + lo), because the model      *)
(* checker's integers are 32-bit signed and 0xFFFFFFFF does not fit.       *)
(***************************************************************************)
EXTENDS Integers, Sequences, FiniteSets, TLC

VARIABLES
    input,        \* the description the input file was built from (never changes)
    file,         \* the bytes of the input file (never changes)
    pos,          \* number of bytes of the file the reader has handed out
    pc,           \* "open" | "run" | "end" | "err" | "panic": where main is
    header,       \* the Header returned by open_flv (NoHeader before)
    status,       \* BodyDecoder.status ("NoDecoder" until the decoder exists)
    src,          \* the BytesMut buffer decode works on
    is_readable,  \* the framing layer's flag: decode may have something to do
    out,          \* the Fields main's loop has received, in order
    error,        \* the Exception main returned (NoError if none)
    call          \* the last step taken, with decode's pre-state and result

vars == <<input, file, pos, pc, header, status, src, is_readable, out, error, call>>

\* ------------------------------------------------------------------ bounds
MaxData == 2      \* largest declared data size in the one-tag inputs
MaxTags == 2      \* largest number of tags in the many-tag inputs

\* --------------------------------------------------------- program constants
PRE_TAG_SIZE_SIZE == 4
TAG_HEADER_SIZE == 11
FILE_HEADER_SIZE == 9

\* ---------------------------------------------------------------- helpers
Ok(v) == [ok |-> TRUE, val |-> v]
Err(e) == [ok |-> FALSE, err |-> e]

\* Exception values: the format string of the message and its argument(s).
Exception(msg, arg) == [msg |-> msg, arg |-> arg]

\* u32::from_be_bytes([b1, b2, b3, b4]) as 16-bit halves.
u32_from_be_bytes(b1, b2, b3, b4) == [hi |-> b1 * 256 + b2, lo |-> b3 * 256 + b4]

\* `x as usize` for a u32 known to fit the checker's integers (hi < 2^15).
as_usize(u) == u.hi * 65536 + u.lo

\* The word read with the first byte given last, as if the bytes were passed
\* in header order [t1, t2, t3, t0].
i32_from_be_bytes_Rotated(b1, b2, b3, b4) ==
    IF b2 >= 128
    THEN ((b2 - 256) * 16777216) + (b3 * 65536 + b4 * 256 + b1)
    ELSE (b2 * 16777216) + (b3 * 65536 + b4 * 256 + b1)

\* i32::from_be_bytes([b1, b2, b3, b4]): two's complement of the 32-bit word.
i32_from_be_bytes(b1, b2, b3, b4) ==
    IF b1 >= 128
    THEN ((b1 - 256) * 16777216) + (b2 * 65536 + b3 * 256 + b4)
    ELSE (b1 * 16777216) + (b2 * 65536 + b3 * 256 + b4)

\* Buf::advance(n): drop the first n bytes.
advance(s, n) == SubSeq(s, n + 1, Len(s))

\* BytesMut::split_to(n): the first n bytes (the buffer keeps advance(s, n)).
split_to(s, n) == SubSeq(s, 1, n)

\* A little-endian read in place of the big-endian one.
get_u32_le(s) == u32_from_be_bytes(s[4], s[3], s[2], s[1])

\* Buf::get_u32: big-endian read of the first four bytes.
get_u32(s) == u32_from_be_bytes(s[1], s[2], s[3], s[4])

\* ------------------------------------------------- audio/video sub-decoders
\* SoundFormat::try_from
SoundFormat_try_from(value) ==
    LET n == (value \div 16) % 16      \* (value & 0b1111_0000) >> 4
    IN CASE n = 0 -> Ok("LinearPCMPlatformEndian")
         [] n = 1 -> Ok("ADPCM")
         [] n = 2 -> Ok("MP3")
         [] n = 3 -> Ok("LinearPCMLittleEndian")
         [] n = 4 -> Ok("Nellymoser16")
         [] n = 5 -> Ok("Nellymoser8")
         [] n = 6 -> Ok("Nellymoser")
         [] n = 7 -> Ok("G711ALaw")
         [] n = 8 -> Ok("G711MuLaw")
         [] n = 9 -> Ok("Reserved")
         [] n = 10 -> Ok("AAC")
         [] n = 11 -> Ok("Speex")
         [] n = 14 -> Ok("MP38kHz")
         [] n = 15 -> Ok("DeviceSpecific")
         [] OTHER -> Err(Exception("error sound format: {}", <<n>>))

\* The sound-rate mask one bit too wide (0b0001_1100).
SoundRate_try_from_WideMask(value) ==
    LET n == (value \div 4) % 8
    IN CASE n = 0 -> Ok("R5p5kHz")
         [] n = 1 -> Ok("R11kHz")
         [] n = 2 -> Ok("R22kHz")
         [] n = 3 -> Ok("R44kHz")
         [] OTHER -> Err(Exception("Invalid sound rate: {}", <<n>>))

\* SoundRate::try_from
SoundRate_try_from(value) ==
    LET n == (value \div 4) % 4        \* (value & 0b0000_1100) >> 2
    IN CASE n = 0 -> Ok("R5p5kHz")
         [] n = 1 -> Ok("R11kHz")
         [] n = 2 -> Ok("R22kHz")
         [] n = 3 -> Ok("R44kHz")
         [] OTHER -> Err(Exception("Invalid sound rate: {}", <<n>>))

\* SoundSize::try_from
SoundSize_try_from(value) ==
    LET n == (value \div 2) % 2        \* (value & 0b0000_0010) >> 1
    IN CASE n = 0 -> Ok("S8Bit")
         [] n = 1 -> Ok("S16Bit")
         [] OTHER -> Err(Exception("Invalid sound size: {}", <<n>>))

\* SoundType::try_from
SoundType_try_from(value) ==
    LET n == value % 2                 \* value & 0b0000_0001
    IN CASE n = 0 -> Ok("Mono")
         [] n = 1 -> Ok("Stereo")
         [] OTHER -> Err(Exception("Invalid sound type: {}", <<n>>))

\* AudioDataHeader::try_from: the four fields in order, the first error wins.
AudioDataHeader_try_from(value) ==
    LET sound_format == SoundFormat_try_from(value)
        sound_rate == SoundRate_try_from(value)
        sound_size == SoundSize_try_from(value)
        sound_type == SoundType_try_from(value)
    IN IF ~sound_format.ok THEN sound_format
       ELSE IF ~sound_rate.ok THEN sound_rate
       ELSE IF ~sound_size.ok THEN sound_size
       ELSE IF ~sound_type.ok THEN sound_type
       ELSE Ok([sound_format |-> sound_format.val,
                sound_rate |-> sound_rate.val,
                sound_size |-> sound_size.val,
                sound_type |-> sound_type.val])

\* VideoFrameType::try_from
VideoFrameType_try_from(value) ==
    LET n == (value \div 16) % 16      \* (value & 0xf0) >> 4
    IN CASE n = 1 -> Ok("KeyFrame")
         [] n = 2 -> Ok("InterFrame")
         [] n = 3 -> Ok("DisposableInterFrame")
         [] n = 4 -> Ok("GeneratedKeyFrame")
         [] n = 5 -> Ok("VideoInfoOrCommandFrame")
         [] OTHER -> Err(Exception("Invalid video frame type: {}", <<n>>))

\* CodecId::try_from
CodecId_try_from(value) ==
    LET n == value % 16                \* value & 0xf
    IN CASE n = 1 -> Ok("JPEG")
         [] n = 2 -> Ok("SorensonH263")
         [] n = 3 -> Ok("ScreenVideo")
         [] n = 4 -> Ok("On2VP6")
         [] n = 5 -> Ok("On2VP6WithAlpha")
         [] n = 6 -> Ok("ScreenVideoVersion2")
         [] n = 7 -> Ok("AVC")
         [] OTHER -> Err(Exception("Invalid codec id {}", <<n>>))

\* The codec id examined before the frame type.
VideoDataHeader_try_from_CodecFirst(value) ==
    LET frame_type == VideoFrameType_try_from(value)
        codec_id == CodecId_try_from(value)
    IN IF ~codec_id.ok THEN codec_id
       ELSE IF ~frame_type.ok THEN frame_type
       ELSE Ok([frame_type |-> frame_type.val, codec_id |-> codec_id.val])

\* VideoDataHeader::try_from
VideoDataHeader_try_from(value) ==
    LET frame_type == VideoFrameType_try_from(value)
        codec_id == CodecId_try_from(value)
    IN IF ~frame_type.ok THEN frame_type
       ELSE IF ~codec_id.ok THEN codec_id
       ELSE Ok([frame_type |-> frame_type.val, codec_id |-> codec_id.val])

\* ------------------------------------------------------ BodyDecoder::decode
\* The Script type byte written 12 (for 0x12) instead of 18.
TagType_of_Script12(tt) ==
    CASE tt = 8 -> [tag |-> "Audio"]
      [] tt = 9 -> [tag |-> "Video"]
      [] tt = 12 -> [tag |-> "Script"]
      [] OTHER -> [tag |-> "Reserved", raw |-> tt]

\* The tag type of a header's first byte.
TagType_of(tt) ==
    CASE tt = 8 -> [tag |-> "Audio"]
      [] tt = 9 -> [tag |-> "Video"]
      [] tt = 18 -> [tag |-> "Script"]
      [] OTHER -> [tag |-> "Reserved", raw |-> tt]

\* What a decode call hands back: Ok(Some(item)), Ok(None), Err(e), or a
\* panic (Buf::get_u8 asserts that a byte remains).
Some(item) == [kind |-> "Some", item |-> item]
None == [kind |-> "None"]
Failed(e) == [kind |-> "Err", err |-> e]
Panic == [kind |-> "Panic"]

\* The body dispatch with the Audio/Video header byte peeked at, not consumed.
TagBody_KeepsHeaderByte(hdr, data_bytes) ==
    CASE hdr.tag_type.tag = "Audio" ->
            IF Len(data_bytes) < 1 THEN Panic
            ELSE LET h == AudioDataHeader_try_from(data_bytes[1])
                 IN IF ~h.ok THEN Failed(h.err)
                    ELSE Some([kind |-> "Tag", header |-> hdr,
                               data |-> [kind |-> "Audio", header |-> h.val,
                                         data |-> data_bytes]])
      [] hdr.tag_type.tag = "Video" ->
            IF Len(data_bytes) < 1 THEN Panic
            ELSE LET h == VideoDataHeader_try_from(data_bytes[1])
                 IN IF ~h.ok THEN Failed(h.err)
                    ELSE Some([kind |-> "Tag", header |-> hdr,
                               data |-> [kind |-> "Video", header |-> h.val,
                                         data |-> data_bytes]])
      [] hdr.tag_type.tag = "Script" ->
            Some([kind |-> "Tag", header |-> hdr,
                  data |-> [kind |-> "Script", data |-> data_bytes]])
      [] OTHER ->
            Some([kind |-> "Tag", header |-> hdr,
                  data |-> [kind |-> "Reserved", data |-> data_bytes]])

\* The body dispatch of a fully buffered tag (match header.tag_type).
TagBody(hdr, data_bytes) ==
    CASE hdr.tag_type.tag = "Audio" ->
            IF Len(data_bytes) < 1 THEN Panic        \* data_bytes.get_u8()
            ELSE LET h == AudioDataHeader_try_from(data_bytes[1])
                 IN IF ~h.ok THEN Failed(h.err)
                    ELSE Some([kind |-> "Tag", header |-> hdr,
                               data |-> [kind |-> "Audio", header |-> h.val,
                                         data |-> advance(data_bytes, 1)]])
      [] hdr.tag_type.tag = "Video" ->
            IF Len(data_bytes) < 1 THEN Panic        \* data_bytes.get_u8()
            ELSE LET h == VideoDataHeader_try_from(data_bytes[1])
                 IN IF ~h.ok THEN Failed(h.err)
                    ELSE Some([kind |-> "Tag", header |-> hdr,
                               data |-> [kind |-> "Video", header |-> h.val,
                                         data |-> advance(data_bytes, 1)]])
      [] hdr.tag_type.tag = "Script" ->
            Some([kind |-> "Tag", header |-> hdr,
                  data |-> [kind |-> "Script", data |-> data_bytes]])
      [] OTHER ->
            Some([kind |-> "Tag", header |-> hdr,
                  data |-> [kind |-> "Reserved", data |-> data_bytes]])

\* Ok(None) in the PreTagSize arm with the partial field thrown away.
PreTagSizePending_Cleared(s) == [status |-> "PreTagSize", src |-> <<>>, result |-> None]

\* The status assigned before the length check instead of after it.
PreTagSizePending_Flipped(s) == [status |-> "Tag", src |-> s, result |-> None]

\* Ok(None) in the PreTagSize arm: nothing is consumed, nothing changes.
PreTagSizePending(s) == [status |-> "PreTagSize", src |-> s, result |-> None]

\* The PreTagSize arm without its `self.status = CodecStatus::Tag`.
DecodePreTagSize_NoFlip(s) ==
    IF Len(s) >= PRE_TAG_SIZE_SIZE
    THEN [status |-> "PreTagSize", src |-> advance(s, PRE_TAG_SIZE_SIZE),
          result |-> Some([kind |-> "PreTagSize", size |-> get_u32(s)])]
    ELSE PreTagSizePending(s)

\* The PreTagSize arm with > in place of >=: it wants a byte of the record
\* that follows.
DecodePreTagSize_LooksAhead(s) ==
    IF Len(s) > PRE_TAG_SIZE_SIZE
    THEN [status |-> "Tag", src |-> advance(s, PRE_TAG_SIZE_SIZE),
          result |-> Some([kind |-> "PreTagSize", size |-> get_u32(s)])]
    ELSE PreTagSizePending(s)

\* The CodecStatus::PreTagSize arm.
DecodePreTagSize(s) ==
    IF Len(s) >= PRE_TAG_SIZE_SIZE
    THEN [status |-> "Tag", src |-> advance(s, PRE_TAG_SIZE_SIZE),
          result |-> Some([kind |-> "PreTagSize", size |-> get_u32(s)])]
    ELSE PreTagSizePending(s)

\* A pattern that pins only the last header byte to zero.
StreamIdIsZero_LastByte(s) == s[11] = 0

\* The slice pattern [tt, s1, s2, s3, t1, t2, t3, t0, 0, 0, 0]: the last
\* three header bytes must be zero.
StreamIdIsZero(s) == s[9] = 0 /\ s[10] = 0 /\ s[11] = 0

\* The completeness test with > in place of >=.
TagComplete_Strict(s, data_size) == Len(s) > as_usize(data_size) + TAG_HEADER_SIZE

\* src.len() >= data_size as usize + TAG_HEADER_SIZE
TagComplete(s, data_size) == Len(s) >= as_usize(data_size) + TAG_HEADER_SIZE

\* The header advanced past before the body is known to be buffered.
BodyPending_HeaderConsumed(s) ==
    [status |-> "Tag", src |-> advance(s, TAG_HEADER_SIZE), result |-> None]

\* Ok(None) for a tag whose body is not fully buffered: nothing is consumed.
BodyPending(s) == [status |-> "Tag", src |-> s, result |-> None]

\* The CodecStatus::Tag arm.
DecodeTag(s) ==
    IF Len(s) >= TAG_HEADER_SIZE
    THEN IF StreamIdIsZero(s)
         THEN LET data_size == u32_from_be_bytes(0, s[2], s[3], s[4])
                  timestamp == i32_from_be_bytes(s[8], s[5], s[6], s[7])
                  hdr == [tag_type |-> TagType_of(s[1]),
                          data_size |-> data_size,
                          timestamp |-> timestamp]
              IN IF TagComplete(s, data_size)
                 THEN LET rest == advance(s, TAG_HEADER_SIZE)
                          data_bytes == split_to(rest, as_usize(data_size))
                      IN [status |-> "PreTagSize",
                          src |-> advance(rest, as_usize(data_size)),
                          result |-> TagBody(hdr, data_bytes)]
                 ELSE BodyPending(s)
         ELSE [status |-> "Tag", src |-> s,
               result |-> Failed(Exception("Invalid tag header: {:?}",
                                           SubSeq(s, 1, TAG_HEADER_SIZE)))]
    ELSE [status |-> "Tag", src |-> s, result |-> None]

\* decode advancing past a header it rejects.
decode_SkipsBadHeader(st, s) ==
    LET r == IF st = "PreTagSize" THEN DecodePreTagSize(s) ELSE DecodeTag(s)
    IN IF r.result.kind = "Err" /\ r.status = "Tag"
       THEN [r EXCEPT !.src = advance(s, TAG_HEADER_SIZE)]
       ELSE r

\* decode putting the buffer and the status back when the body is rejected.
decode_RestoresOnBodyError(st, s) ==
    LET r == IF st = "PreTagSize" THEN DecodePreTagSize(s) ELSE DecodeTag(s)
    IN IF r.result.kind = "Err" THEN [r EXCEPT !.src = s, !.status = st] ELSE r

\* BodyDecoder::decode(&mut self, src): the new status, the new buffer and
\* the value returned.
decode(st, s) ==
    IF st = "PreTagSize" THEN DecodePreTagSize(s) ELSE DecodeTag(s)

\* ----------------------------------------------------------------- open_flv
NoHeader == [version |-> -1, type_ |-> -1, offset |-> [hi |-> -1, lo |-> -1]]
NoError == [msg |-> "", arg |-> <<>>]

\* A signature test that looks at the first two bytes only.
ParseHeader_TwoByteSignature(buf) ==
    IF buf[1] = 70 /\ buf[2] = 76
    THEN Ok([version |-> buf[4], type_ |-> buf[5],
             offset |-> u32_from_be_bytes(buf[6], buf[7], buf[8], buf[9])])
    ELSE Err(Exception("invalid flv file", <<>>))

\* The match on the nine header bytes.
ParseHeader(buf) ==
    IF buf[1] = 70 /\ buf[2] = 76 /\ buf[3] = 86       \* b'F', b'L', b'V'
    THEN Ok([version |-> buf[4], type_ |-> buf[5],
             offset |-> u32_from_be_bytes(buf[6], buf[7], buf[8], buf[9])])
    ELSE Err(Exception("invalid flv file", <<>>))

\* ------------------------------------------------------------------ inputs
\* An input file is described by its header bytes and its elements, each a
\* previous-tag-size field ("pts": 4 head bytes) or a tag ("tag": 11 head
\* bytes and the body bytes that follow).  The file is their concatenation.
Byte == 0..255

RECURSIVE Flatten(_)
Flatten(elems) ==
    IF elems = <<>> THEN <<>>
    ELSE Head(elems).head \o Head(elems).body \o Flatten(Tail(elems))

Encode(d) == d.hdr \o Flatten(d.elems)

Pts(b) == [kind |-> "pts", head |-> b, body |-> <<>>]

\* 24-bit big-endian encoding of a size.
Size3(n) == <<n \div 65536, (n \div 256) % 256, n % 256>>

\* A body of n bytes starting with `first`; the others tell their position.
BodyOf(n, first) == [i \in 1..n |-> IF i = 1 THEN first ELSE 200 + i]

\* A tag: type byte, declared size, timestamp bytes <<t1, t2, t3, t0>>,
\* stream id bytes, and a body of `len` bytes.
TagElem(tt, size, ts, sid, len, first) ==
    [kind |-> "tag", head |-> <<tt>> \o Size3(size) \o ts \o sid,
     body |-> BodyOf(len, first)]

GoodHdr == <<70, 76, 86, 1, 5, 0, 0, 0, 9>>
ZeroSid == <<0, 0, 0>>
ZeroTs == <<0, 0, 0, 0>>

\* One-tag inputs: every combination of tag type, declared size, first body
\* byte, timestamp and stream id, between two previous-tag-size fields.
WideTypes == {8, 9, 18, 5, 255}
WideFirsts == {175, 23, 192, 16}      \* 0xAF, 0x17, 0xC0, 0x10
WideTs == {ZeroTs, <<1, 2, 3, 0>>, <<255, 255, 255, 255>>}
WideSids == {ZeroSid, <<0, 0, 1>>, <<0, 7, 0>>, <<255, 0, 0>>}
WideTags ==
    {TagElem(tt, size, ts, sid, size, first) :
        tt \in WideTypes, size \in 0..MaxData, ts \in WideTs,
        sid \in WideSids, first \in WideFirsts}
WidePts == {<<0, 0, 0, 0>>, <<0, 0, 1, 44>>, <<255, 254, 253, 252>>, <<128, 0, 0, 0>>}
WideInputs ==
    {[hdr |-> GoodHdr, elems |-> <<Pts(<<0, 0, 0, 0>>), t, Pts(<<0, 0, 0, 11>>)>>] :
        t \in WideTags}
    \cup {[hdr |-> GoodHdr,
           elems |-> <<Pts(p), TagElem(18, 1, ZeroTs, ZeroSid, 1, 2), Pts(p)>>] :
           p \in WidePts}

\* Inputs that end early: a body shorter than declared (also a declared size
\* of 2^24 - 1), a header cut short, a lone partial previous-tag-size field.
ShortInputs ==
    {[hdr |-> GoodHdr,
      elems |-> <<Pts(<<0, 0, 0, 0>>), TagElem(tt, size, ZeroTs, ZeroSid, len, 175)>>] :
        tt \in {8, 18}, size \in {1, MaxData + 1, 16777215}, len \in 0..MaxData}
    \cup {[hdr |-> GoodHdr,
           elems |-> <<Pts(<<0, 0, 0, 0>>),
                       [kind |-> "tag", head |-> SubSeq(<<8, 0, 0, 1, 0, 0, 0, 0, 0, 0, 1>>, 1, n),
                        body |-> <<>>]>>] : n \in 1..10}
    \cup {[hdr |-> GoodHdr, elems |-> <<Pts(SubSeq(<<0, 0, 0, 0>>, 1, n))>>] : n \in 0..3}
    \cup {[hdr |-> SubSeq(GoodHdr, 1, n), elems |-> <<>>] : n \in 0..8}

\* Many-tag inputs: up to MaxTags tags drawn from a few kinds (good ones,
\* ones that fail in each way), each between previous-tag-size fields that
\* carry the size of the tag before them.
LeanTags ==
    {TagElem(8, 2, <<0, 0, 9, 0>>, ZeroSid, 2, 175),     \* audio, AAC, 1 payload byte
     TagElem(9, 1, <<0, 1, 0, 0>>, ZeroSid, 1, 23),      \* video, key frame AVC
     TagElem(18, 0, ZeroTs, ZeroSid, 0, 0),              \* script, empty
     TagElem(5, 2, ZeroTs, ZeroSid, 2, 192),             \* reserved type 5
     TagElem(8, 1, ZeroTs, ZeroSid, 1, 192),             \* audio, sound format 12
     TagElem(9, 2, ZeroTs, ZeroSid, 2, 16),              \* video, codec id 0
     TagElem(8, 1, ZeroTs, <<0, 0, 1>>, 1, 175),         \* nonzero stream id
     TagElem(8, 0, ZeroTs, ZeroSid, 0, 0)}               \* audio, no body at all

PtsAfter(t) == Pts(<<0, 0, 0, Len(t.head) + Len(t.body)>>)

RECURSIVE TagRuns(_)
TagRuns(n) ==
    IF n = 0 THEN {<<Pts(<<0, 0, 0, 0>>)>>}
    ELSE TagRuns(n - 1)
         \cup {r \o <<t, PtsAfter(t)>> : r \in {x \in TagRuns(n - 1) : Len(x) = 2 * n - 1},
                                         t \in LeanTags}

MultiInputs == {[hdr |-> GoodHdr, elems |-> r] : r \in TagRuns(MaxTags)}

\* Header inputs: the nine header bytes vary, a short stream follows.
HeaderInputs ==
    {[hdr |-> <<b1, b2, b3, v, f, o1, 0, o3, o4>>,
      elems |-> <<Pts(<<1, 2, 3, 4>>), TagElem(18, 1, ZeroTs, ZeroSid, 1, 7)>>] :
        b1 \in {70, 102}, b2 \in {76, 0}, b3 \in {86, 87}, v \in {1, 255}, f \in {0, 5},
        o1 \in {0, 255}, o3 \in {0, 1}, o4 \in {0, 9, 13}}

\* Audio and video inputs: one tag of one body byte, for every byte value.
AudioInputs ==
    {[hdr |-> GoodHdr,
      elems |-> <<Pts(<<0, 0, 0, 0>>), TagElem(8, 1, ZeroTs, ZeroSid, 1, b)>>] : b \in Byte}
VideoInputs ==
    {[hdr |-> GoodHdr,
      elems |-> <<Pts(<<0, 0, 0, 0>>), TagElem(9, 1, ZeroTs, ZeroSid, 1, b)>>] : b \in Byte}

\* Tag type inputs: one tag of one body byte (0x17, a valid header byte for
\* audio and for video), for every value of the type byte.
TypeInputs ==
    {[hdr |-> GoodHdr,
      elems |-> <<Pts(<<0, 0, 0, 0>>), TagElem(tt, 1, ZeroTs, ZeroSid, 1, 23)>>] : tt \in Byte}

\* Timestamp inputs: one empty Script tag, the extension byte and the three
\* timestamp bytes varying.
TsInputs ==
    {[hdr |-> GoodHdr,
      elems |-> <<Pts(<<0, 0, 0, 0>>), TagElem(18, 0, t \o <<t0>>, ZeroSid, 0, 0)>>] :
        t \in {<<0, 0, 0>>, <<1, 2, 3>>, <<128, 0, 1>>, <<255, 255, 255>>},
        t0 \in {0, 1, 127, 128, 129, 255}}

Inputs ==
    WideInputs \cup ShortInputs \cup MultiInputs \cup HeaderInputs
    \cup AudioInputs \cup VideoInputs \cup TypeInputs \cup TsInputs

\* ------------------------------------------------------------------- steps
Step(op, st, s, result) == [op |-> op, status |-> st, src |-> s, result |-> result]
NoResult == [kind |-> "NA"]

Init ==
    /\ input \in Inputs
    /\ file = Encode(input)
    /\ pos = 0
    /\ pc = "open"
    /\ header = NoHeader
    /\ status = "NoDecoder"
    /\ src = <<>>
    /\ is_readable = FALSE
    /\ out = <<>>
    /\ error = NoError
    /\ call = Step("init", "NoDecoder", <<>>, NoResult)

\* open_flv seeking to the header's data offset before framing the reader.
Open_SeeksToOffset ==
    /\ pc = "open"
    /\ IF Len(file) < FILE_HEADER_SIZE
       THEN /\ pc' = "err"
            /\ error' = Exception("io: UnexpectedEof", <<>>)
            /\ UNCHANGED <<pos, header, status>>
       ELSE LET h == ParseHeader(SubSeq(file, 1, FILE_HEADER_SIZE))
            IN IF h.ok
               THEN /\ pc' = "run"
                    /\ header' = h.val
                    /\ status' = "PreTagSize"
                    /\ pos' = IF h.val.offset.hi = 0 /\ h.val.offset.lo <= Len(file)
                              THEN h.val.offset.lo
                              ELSE Len(file)
                    /\ error' = error
               ELSE /\ pc' = "err"
                    /\ error' = h.err
                    /\ UNCHANGED <<pos, header, status>>
    /\ call' = Step("open", "NoDecoder", <<>>, NoResult)
    /\ UNCHANGED <<input, file, src, is_readable, out>>

\* open_flv, called by main: read exactly nine bytes, match them, and build
\* the framed reader around BodyDecoder::default().  Either failure makes
\* main return the error.
Open ==
    /\ pc = "open"
    /\ IF Len(file) < FILE_HEADER_SIZE
       THEN /\ pc' = "err"
            /\ error' = Exception("io: UnexpectedEof", <<>>)
            /\ UNCHANGED <<pos, header, status>>
       ELSE LET h == ParseHeader(SubSeq(file, 1, FILE_HEADER_SIZE))
            IN IF h.ok
               THEN /\ pc' = "run"
                    /\ header' = h.val
                    /\ status' = "PreTagSize"
                    /\ pos' = FILE_HEADER_SIZE
                    /\ error' = error
               ELSE /\ pc' = "err"
                    /\ error' = h.err
                    /\ UNCHANGED <<pos, header, status>>
    /\ call' = Step("open", "NoDecoder", <<>>, NoResult)
    /\ UNCHANGED <<input, file, src, is_readable, out>>

\* decoder.next(): the last decode call found nothing to emit, so the framing
\* layer reads the next chunk of the file, of any size, into the buffer.
Read ==
    /\ pc = "run"
    /\ ~is_readable
    /\ pos < Len(file)
    /\ \E n \in 1..(Len(file) - pos) :
          /\ src' = src \o SubSeq(file, pos + 1, pos + n)
          /\ pos' = pos + n
    /\ is_readable' = TRUE
    /\ call' = Step("read", status, <<>>, NoResult)
    /\ UNCHANGED <<input, file, pc, header, status, out, error>>

\* decoder.next(): the file is exhausted and decode has nothing to emit; the
\* stream ends and main leaves its loop.
Eof ==
    /\ pc = "run"
    /\ ~is_readable
    /\ pos = Len(file)
    /\ pc' = "end"
    /\ call' = Step("eof", status, <<>>, NoResult)
    /\ UNCHANGED <<input, file, pos, header, status, src, is_readable, out, error>>

\* A loop that does not return on Err.
MainAfter_Continue(kind) ==
    CASE kind = "Panic" -> "panic"
      [] OTHER -> "run"

\* Where main is after a decode result: `Err(e) => return Err(e)` leaves the
\* loop for good, a panic unwinds out of main, anything else loops on.
MainAfter(kind) ==
    CASE kind = "Err" -> "err"
      [] kind = "Panic" -> "panic"
      [] OTHER -> "run"

\* decoder.next(): one decode call on the buffer, and what main's loop does
\* with its result: a Field is consumed (printed), an Err is returned from
\* main, None sends the framing layer back to reading; a panic ends the
\* process.
DecodeStep ==
    /\ pc = "run"
    /\ is_readable
    /\ LET r == decode(status, src)
       IN /\ status' = r.status
          /\ src' = r.src
          /\ call' = Step("decode", status, src, r.result)
          /\ out' = IF r.result.kind = "Some" THEN Append(out, r.result.item) ELSE out
          /\ is_readable' = (r.result.kind = "Some")
          /\ pc' = MainAfter(r.result.kind)
          /\ error' = IF r.result.kind = "Err" THEN r.result.err ELSE error
    /\ UNCHANGED <<input, file, pos, header>>

Next == Open \/ Read \/ Eof \/ DecodeStep

Spec == Init /\ [][Next]_vars

LiveSpec ==
    /\ Init /\ [][Next]_vars
    /\ WF_vars(Open) /\ WF_vars(Read) /\ WF_vars(Eof) /\ WF_vars(DecodeStep)

\* ============================================================== properties
\* What the properties read off the bytes themselves.

\* The data size a tag header declares (header offsets 1-3, big-endian).
DeclaredSize(s) == s[2] * 65536 + s[3] * 256 + s[4]

\* The stream-id bytes of a tag header (header offsets 8-10).
StreamId(s) == SubSeq(s, 9, 11)

\* The last step was a decode call / with this kind of result.
Decoded == call.op = "decode"
Returned(kind) == Decoded /\ call.result.kind = kind

\* The buffer before the call held fewer bytes than the state requires.
TooFewBytes ==
    \/ call.status = "PreTagSize" /\ Len(call.src) < 4
    \/ call.status = "Tag" /\ Len(call.src) < 11
    \/ /\ call.status = "Tag"
       /\ Len(call.src) >= 11
       /\ StreamId(call.src) = <<0, 0, 0>>
       /\ Len(call.src) < 11 + DeclaredSize(call.src)

\* C1: a decode call reports insufficient data exactly when the buffer holds
\* fewer bytes than the state requires (fewer than 4 in PreTagSize; fewer than
\* 11 in Tag, or a valid header and fewer than 11 + dataSize), and then the
\* buffer and the decoder state are what they were before the call.
C1_InsufficientConsumesNothing ==
    Decoded =>
        /\ (call.result.kind = "None") <=> TooFewBytes
        /\ call.result.kind = "None" => src = call.src /\ status = call.status

\* A tag header is buffered, valid, and its body is not all there yet.
C1_Witness ==
    /\ Returned("None")
    /\ call.status = "Tag"
    /\ Len(call.src) > 11
    /\ src = call.src

\* One chunk: decode called on the whole of s until it emits nothing more.
RECURSIVE DecodeAll(_, _)
DecodeAll(st, s) ==
    LET r == decode(st, s)
    IN IF r.result.kind = "Some"
       THEN <<r.result.item>> \o DecodeAll(r.status, r.src)
       ELSE <<>>

\* The bytes of the tag stream delivered so far (the file after its header).
Delivered == SubSeq(file, FILE_HEADER_SIZE + 1, pos)

\* C2: whenever decode has nothing more to emit from what was delivered (in
\* whatever chunks), the records emitted are those of the same bytes decoded
\* as one chunk.
C2_ChunkingIrrelevant ==
    (status # "NoDecoder" /\ (pc \in {"end", "err", "panic"} \/ ~is_readable))
        => out = DecodeAll("PreTagSize", Delivered)

\* Records were emitted, and the delivery stopped inside a later record.
C2_Witness ==
    /\ pc = "run"
    /\ ~is_readable
    /\ Len(out) >= 3
    /\ src # <<>>
    /\ pos < Len(file)

\* C3: the records emitted alternate PreTagSize, Tag, PreTagSize, ... from
\* the first on; the state flips on every emission and on no insufficient-data
\* return.
C3_Alternation ==
    /\ \A i \in 1..Len(out) :
          out[i].kind = (IF i % 2 = 1 THEN "PreTagSize" ELSE "Tag")
    /\ pc \in {"run", "end"} =>
          status = (IF Len(out) % 2 = 0 THEN "PreTagSize" ELSE "Tag")
    /\ Returned("Some") => status # call.status
    /\ Returned("None") => status = call.status

C3_Witness == Len(out) >= 5 /\ Returned("Some")

\* C4: a decode call that emits a record removes exactly that record's bytes
\* from the front of the buffer: 4 for a PreTagSize, whose value is the
\* big-endian reading of them; 11 + dataSize for a Tag, dataSize being the
\* value its header declares.
C4_ConsumesExactlyTheRecord ==
    Returned("Some") =>
        LET item == call.result.item
            n == IF item.kind = "PreTagSize" THEN 4 ELSE 11 + DeclaredSize(call.src)
        IN /\ Len(call.src) >= n
           /\ call.src = SubSeq(call.src, 1, n) \o src
           /\ item.kind = "PreTagSize" =>
                 /\ item.size.hi = call.src[1] * 256 + call.src[2]
                 /\ item.size.lo = call.src[3] * 256 + call.src[4]
           /\ item.kind = "Tag" =>
                 item.header.data_size.hi * 65536 + item.header.data_size.lo
                    = DeclaredSize(call.src)

\* A tag with a body was emitted and bytes of the next record stay buffered.
C4_Witness ==
    /\ Returned("Some")
    /\ call.result.item.kind = "Tag"
    /\ DeclaredSize(call.src) >= 2
    /\ src # <<>>

\* A PreTagSize above 2^31 was emitted.
C4_WitnessPreTagSize ==
    /\ Returned("Some")
    /\ call.result.item.kind = "PreTagSize"
    /\ call.result.item.size.hi >= 32768

\* C5: every decode call ends in one of three ways: it emits a record, it
\* reports insufficient data having consumed nothing, or it fails with an
\* error value.
C5_ThreeOutcomes ==
    Decoded =>
        \/ call.result.kind = "Some"
        \/ call.result.kind = "None" /\ src = call.src
        \/ call.result.kind = "Err"

\* C6: in state Tag with 11 bytes or more buffered, decode fails with the
\* invalid-tag-header error exactly when a stream-id byte is nonzero.
C6_StreamIdDecides ==
    (Decoded /\ call.status = "Tag" /\ Len(call.src) >= 11) =>
        ((/\ call.result.kind = "Err"
          /\ call.result.err = Exception("Invalid tag header: {:?}",
                                         SubSeq(call.src, 1, 11)))
         <=> StreamId(call.src) # <<0, 0, 0>>)

\* The error was raised for a video tag whose body was not all buffered and
\* whose only nonzero stream-id byte is the first.
C6_Witness ==
    /\ Returned("Err")
    /\ call.status = "Tag"
    /\ call.src[1] = 9
    /\ StreamId(call.src) = <<255, 0, 0>>
    /\ DeclaredSize(call.src) > 0
    /\ Len(call.src) < 11 + DeclaredSize(call.src)

\* ----------------------------------------- the records an input stands for
\* The names of the audio and video fields, by field value (index value + 1).
SoundFormatNames ==
    <<"LinearPCMPlatformEndian", "ADPCM", "MP3", "LinearPCMLittleEndian",
      "Nellymoser16", "Nellymoser8", "Nellymoser", "G711ALaw", "G711MuLaw",
      "Reserved", "AAC", "Speex", "invalid", "invalid", "MP38kHz", "DeviceSpecific">>
SoundRateNames == <<"R5p5kHz", "R11kHz", "R22kHz", "R44kHz">>
SoundSizeNames == <<"S8Bit", "S16Bit">>
SoundTypeNames == <<"Mono", "Stereo">>
FrameTypeNames ==
    <<"KeyFrame", "InterFrame", "DisposableInterFrame", "GeneratedKeyFrame",
      "VideoInfoOrCommandFrame">>
CodecIdNames ==
    <<"JPEG", "SorensonH263", "ScreenVideo", "On2VP6", "On2VP6WithAlpha",
      "ScreenVideoVersion2", "AVC">>

HighNibble(b) == b \div 16
LowNibble(b) == b % 16

ValidAudioByte(b) == HighNibble(b) \notin {12, 13}
ValidVideoByte(b) == HighNibble(b) \in 1..5 /\ LowNibble(b) \in 1..7

AudioHeaderOf(b) ==
    [sound_format |-> SoundFormatNames[HighNibble(b) + 1],
     sound_rate |-> SoundRateNames[((b \div 4) % 4) + 1],
     sound_size |-> SoundSizeNames[((b \div 2) % 2) + 1],
     sound_type |-> SoundTypeNames[(b % 2) + 1]]

VideoHeaderOf(b) ==
    [frame_type |-> FrameTypeNames[HighNibble(b)], codec_id |-> CodecIdNames[LowNibble(b)]]

\* An element is whole: 4 bytes, or 11 header bytes and the declared body.
ElemComplete(e) ==
    IF e.kind = "pts" THEN Len(e.head) = 4
    ELSE Len(e.head) = 11 /\ Len(e.body) = DeclaredSize(e.head)

\* The input is a valid file header followed by whole elements, previous-tag-
\* size fields and tags in turn.
Structured(d) ==
    /\ Len(d.hdr) = 9 /\ SubSeq(d.hdr, 1, 3) = <<70, 76, 86>>
    /\ \A i \in 1..Len(d.elems) :
          /\ ElemComplete(d.elems[i])
          /\ d.elems[i].kind = (IF i % 2 = 1 THEN "pts" ELSE "tag")

\* Why decoding a whole element fails, "" if it does not.
ElemFailure(e) ==
    CASE e.kind = "pts" -> ""
      [] StreamId(e.head) # <<0, 0, 0>> -> "header"
      [] e.head[1] \in {8, 9} /\ e.body = <<>> -> "panic"
      [] e.head[1] = 8 /\ ~ValidAudioByte(e.body[1]) -> "format"
      [] e.head[1] = 9 /\ HighNibble(e.body[1]) \notin 1..5 -> "frame"
      [] e.head[1] = 9 /\ LowNibble(e.body[1]) \notin 1..7 -> "codec"
      [] OTHER -> ""

\* The error value of a failing element.
ElemError(e) ==
    CASE ElemFailure(e) = "header" -> Exception("Invalid tag header: {:?}", e.head)
      [] ElemFailure(e) = "format" ->
            Exception("error sound format: {}", <<HighNibble(e.body[1])>>)
      [] ElemFailure(e) = "frame" ->
            Exception("Invalid video frame type: {}", <<HighNibble(e.body[1])>>)
      [] ElemFailure(e) = "codec" ->
            Exception("Invalid codec id {}", <<LowNibble(e.body[1])>>)
      [] OTHER -> NoError

\* The index of the first failing element (Len + 1 if there is none).
FirstFailure(d) ==
    LET bad == {i \in 1..Len(d.elems) : ElemFailure(d.elems[i]) # ""}
    IN IF bad = {} THEN Len(d.elems) + 1
       ELSE CHOOSE i \in bad : \A j \in bad : i <= j

\* The record a whole, non-failing element stands for.
ElemRecord(e) ==
    IF e.kind = "pts"
    THEN [kind |-> "PreTagSize",
          size |-> [hi |-> e.head[1] * 256 + e.head[2], lo |-> e.head[3] * 256 + e.head[4]]]
    ELSE [kind |-> "Tag",
          header |->
            [tag_type |-> CASE e.head[1] = 8 -> [tag |-> "Audio"]
                            [] e.head[1] = 9 -> [tag |-> "Video"]
                            [] e.head[1] = 18 -> [tag |-> "Script"]
                            [] OTHER -> [tag |-> "Reserved", raw |-> e.head[1]],
             data_size |-> [hi |-> e.head[2], lo |-> e.head[3] * 256 + e.head[4]],
             timestamp |-> (IF e.head[8] >= 128 THEN e.head[8] - 256 ELSE e.head[8]) * 16777216
                           + e.head[5] * 65536 + e.head[6] * 256 + e.head[7]],
          data |->
            CASE e.head[1] = 8 ->
                    [kind |-> "Audio", header |-> AudioHeaderOf(e.body[1]), data |-> Tail(e.body)]
              [] e.head[1] = 9 ->
                    [kind |-> "Video", header |-> VideoHeaderOf(e.body[1]), data |-> Tail(e.body)]
              [] e.head[1] = 18 -> [kind |-> "Script", data |-> e.body]
              [] OTHER -> [kind |-> "Reserved", data |-> e.body]]

\* The records of the elements before the first failing one.
RecordsBeforeFailure(d) ==
    [i \in 1..(FirstFailure(d) - 1) |-> ElemRecord(d.elems[i])]

\* C7: once a decode call has returned an error, main has returned that
\* error, and the records it received are exactly those of the elements that
\* precede the failing tag: none is produced afterwards.
C7_FirstErrorEndsTheRun ==
    (Structured(input) /\ status # "NoDecoder" /\ error # NoError) =>
        /\ pc = "err"
        /\ Returned("Err") /\ call.result.err = error
        /\ FirstFailure(input) <= Len(input.elems)
        /\ error = ElemError(input.elems[FirstFailure(input)])
        /\ out = RecordsBeforeFailure(input)

\* A body error after a first tag went through, with a whole record still
\* buffered behind the failing tag.
C7_Witness ==
    /\ pc = "err"
    /\ Structured(input)
    /\ Len(out) >= 3
    /\ error.msg = "Invalid codec id {}"
    /\ Len(src) >= 4

\* The input is well formed: structured, and no element fails.
WellFormed(d) == Structured(d) /\ FirstFailure(d) > Len(d.elems)

\* C8: when every byte of a well-formed stream is eventually delivered and
\* decode is retried after each delivery, every record is eventually emitted
\* and the buffer ends empty; and decode never reports insufficient data while
\* the bytes its state requires are buffered.
C8_EveryRecordEmitted ==
    /\ [](Returned("None") => TooFewBytes)
    /\ <>(WellFormed(input) =>
            /\ pc = "end"
            /\ src = <<>>
            /\ pos = Len(file)
            /\ out = RecordsBeforeFailure(input))

\* A well-formed stream of two tags and three size fields was decoded whole.
C8_Witness ==
    /\ WellFormed(input)
    /\ pc = "end"
    /\ src = <<>>
    /\ Len(out) = 5
    /\ Len(out) = Len(input.elems)

\* C9: on nine header bytes open_flv succeeds exactly when the first three
\* are 'F', 'L', 'V'; it then returns version = byte 3, type = byte 4 and
\* offset = bytes 5-8 read big-endian; otherwise it fails with the invalid-file
\* error and no decoder exists.
C9_HeaderParse ==
    (pc # "open" /\ Len(file) >= 9) =>
        IF SubSeq(file, 1, 3) = <<70, 76, 86>>
        THEN /\ status # "NoDecoder"
             /\ header.version = file[4]
             /\ header.type_ = file[5]
             /\ header.offset.hi = file[6] * 256 + file[7]
             /\ header.offset.lo = file[8] * 256 + file[9]
             /\ error.msg # "invalid flv file"
        ELSE /\ pc = "err"
             /\ error = Exception("invalid flv file", <<>>)
             /\ status = "NoDecoder"
             /\ header = NoHeader
             /\ out = <<>>

\* A header with version 255 and offset 0xFF00010D was parsed.
C9_Witness ==
    /\ call.op = "open"
    /\ pc = "run"
    /\ header = [version |-> 255, type_ |-> 0, offset |-> [hi |-> 65280, lo |-> 269]]

\* A file whose third byte alone is wrong was refused.
C9_WitnessRefused ==
    /\ call.op = "open"
    /\ pc = "err"
    /\ Len(file) >= 9
    /\ SubSeq(file, 1, 3) = <<70, 76, 87>>

\* The decode call had a whole Audio tag with a body in the buffer.
AudioTagBuffered ==
    /\ Decoded
    /\ call.status = "Tag"
    /\ Len(call.src) >= 12
    /\ call.src[1] = 8
    /\ StreamId(call.src) = <<0, 0, 0>>
    /\ DeclaredSize(call.src) >= 1
    /\ Len(call.src) >= 11 + DeclaredSize(call.src)

\* C10: the audio header byte b decodes exactly when its top nibble is not
\* 12 or 13, to the named format of the nibble, the rate of bits 3-2, the size
\* of bit 1 and the type of bit 0; otherwise the error is the sound-format
\* error carrying the nibble; no rate, size or type error is ever produced.
C10_AudioHeader ==
    /\ AudioTagBuffered =>
          LET b == call.src[12]
          IN IF HighNibble(b) \in {12, 13}
             THEN /\ call.result.kind = "Err"
                  /\ call.result.err = Exception("error sound format: {}", <<HighNibble(b)>>)
             ELSE /\ call.result.kind = "Some"
                  /\ call.result.item.data.kind = "Audio"
                  /\ call.result.item.data.header = AudioHeaderOf(b)
                  /\ b = 175 => call.result.item.data.header =
                                   [sound_format |-> "AAC", sound_rate |-> "R44kHz",
                                    sound_size |-> "S16Bit", sound_type |-> "Stereo"]
    /\ error.msg \notin {"Invalid sound rate: {}", "Invalid sound size: {}",
                         "Invalid sound type: {}"}

\* 0x5A: Nellymoser8, 22kHz, 16-bit, mono.
C10_Witness ==
    /\ AudioTagBuffered
    /\ call.src[12] = 90
    /\ Returned("Some")
    /\ call.result.item.data.header.sound_rate = "R22kHz"

\* 0xD3: sound format 13.
C10_WitnessInvalid ==
    /\ AudioTagBuffered
    /\ call.src[12] = 211
    /\ Returned("Err")

\* The decode call had a whole Video tag with a body in the buffer.
VideoTagBuffered ==
    /\ Decoded
    /\ call.status = "Tag"
    /\ Len(call.src) >= 12
    /\ call.src[1] = 9
    /\ StreamId(call.src) = <<0, 0, 0>>
    /\ DeclaredSize(call.src) >= 1
    /\ Len(call.src) >= 11 + DeclaredSize(call.src)

\* C11: the video header byte b decodes exactly when its frame type (top
\* nibble) is in 1..5 and its codec id (low nibble) is in 1..7, to the named
\* frame type and codec; otherwise the error is the frame-type error carrying
\* the frame type when that is outside 1..5, and the codec-id error carrying
\* the codec id when the frame type is valid.
C11_VideoHeader ==
    VideoTagBuffered =>
        LET b == call.src[12]
        IN CASE HighNibble(b) \notin 1..5 ->
                   /\ call.result.kind = "Err"
                   /\ call.result.err =
                         Exception("Invalid video frame type: {}", <<HighNibble(b)>>)
             [] HighNibble(b) \in 1..5 /\ LowNibble(b) \notin 1..7 ->
                   /\ call.result.kind = "Err"
                   /\ call.result.err = Exception("Invalid codec id {}", <<LowNibble(b)>>)
             [] OTHER ->
                   /\ call.result.kind = "Some"
                   /\ call.result.item.data.kind = "Video"
                   /\ call.result.item.data.header = VideoHeaderOf(b)
                   /\ b = 23 => call.result.item.data.header =
                                   [frame_type |-> "KeyFrame", codec_id |-> "AVC"]

\* 0x52: video-info/command frame, Sorenson H.263.
C11_Witness ==
    /\ VideoTagBuffered
    /\ call.src[12] = 82
    /\ Returned("Some")
    /\ call.result.item.data.header.codec_id = "SorensonH263"

\* 0x6F: frame type 6 and codec id 15, both invalid.
C11_WitnessBothInvalid ==
    /\ VideoTagBuffered
    /\ call.src[12] = 111
    /\ Returned("Err")

\* 0x38: a valid frame type with codec id 8.
C11_WitnessCodecInvalid ==
    /\ VideoTagBuffered
    /\ call.src[12] = 56
    /\ Returned("Err")
    /\ error.arg = <<8>>

\* The decode call emitted a Tag.
EmittedTag == Returned("Some") /\ call.result.item.kind = "Tag"

\* C12: the body variant of an emitted Tag is that of its header's tag type;
\* the payload of an Audio or Video tag is the dataSize - 1 body bytes after
\* the header byte, that of a Script or Reserved tag the whole body of
\* dataSize bytes, in stream order.
C12_Payload ==
    EmittedTag =>
        LET item == call.result.item
            size == DeclaredSize(call.src)
        IN /\ item.data.kind = item.header.tag_type.tag
           /\ item.data.kind \in {"Audio", "Video"} =>
                 /\ Len(item.data.data) = size - 1
                 /\ item.data.data = SubSeq(call.src, 13, 11 + size)
           /\ item.data.kind \in {"Script", "Reserved"} =>
                 /\ Len(item.data.data) = size
                 /\ item.data.data = SubSeq(call.src, 12, 11 + size)

\* An Audio tag of two body bytes, 0xAF and one payload byte, was emitted.
C12_Witness ==
    /\ EmittedTag
    /\ call.result.item.data.kind = "Audio"
    /\ call.src[12] = 175
    /\ Len(call.result.item.data.data) = 1
    /\ call.result.item.data.data = <<call.src[13]>>

\* A Reserved tag was emitted with its whole body.
C12_WitnessReserved ==
    /\ EmittedTag
    /\ call.result.item.data.kind = "Reserved"
    /\ Len(call.result.item.data.data) = 2

\* ------------------------------------------------- the bytes of a record
\* The position of a name in a table of names.
IndexOf(names, x) == CHOOSE i \in 1..Len(names) : names[i] = x

\* The header byte an Audio / Video header was decoded from.
AudioHeaderByte(h) ==
    (IndexOf(SoundFormatNames, h.sound_format) - 1) * 16
    + (IndexOf(SoundRateNames, h.sound_rate) - 1) * 4
    + (IndexOf(SoundSizeNames, h.sound_size) - 1) * 2
    + (IndexOf(SoundTypeNames, h.sound_type) - 1)
VideoHeaderByte(h) ==
    IndexOf(FrameTypeNames, h.frame_type) * 16 + IndexOf(CodecIdNames, h.codec_id)

\* The type byte of a tag type.
TagTypeByte(t) ==
    CASE t.tag = "Audio" -> 8
      [] t.tag = "Video" -> 9
      [] t.tag = "Script" -> 18
      [] OTHER -> t.raw

\* The four timestamp bytes of a header, <<t1, t2, t3, t0>>, of a signed value.
TimestampBytes(ts) ==
    LET ext == IF ts < 0 THEN 256 + (ts \div 16777216) ELSE ts \div 16777216
        low == ts % 16777216
    IN <<low \div 65536, (low \div 256) % 256, low % 256, ext>>

\* The bytes a record was decoded from.
RecordBytes(r) ==
    IF r.kind = "PreTagSize"
    THEN <<r.size.hi \div 256, r.size.hi % 256, r.size.lo \div 256, r.size.lo % 256>>
    ELSE <<TagTypeByte(r.header.tag_type)>>
         \o <<r.header.data_size.hi, r.header.data_size.lo \div 256,
              r.header.data_size.lo % 256>>
         \o TimestampBytes(r.header.timestamp)
         \o <<0, 0, 0>>
         \o (CASE r.data.kind = "Audio" -> <<AudioHeaderByte(r.data.header)>>
               [] r.data.kind = "Video" -> <<VideoHeaderByte(r.data.header)>>
               [] OTHER -> <<>>)
         \o r.data.data

RECURSIVE RecordsBytes(_)
RecordsBytes(rs) ==
    IF rs = <<>> THEN <<>> ELSE RecordBytes(Head(rs)) \o RecordsBytes(Tail(rs))

\* C13: while no decode call has failed, the bytes of the records emitted,
\* in emission order, followed by the buffer, are the bytes delivered so far
\* after the file header: none is lost, duplicated or reordered.
C13_BytesConserved ==
    (pc \in {"run", "end"} /\ status # "NoDecoder") =>
        RecordsBytes(out) \o src = Delivered

\* Three records were emitted and part of the next is buffered.
C13_Witness ==
    /\ pc = "run"
    /\ Len(out) = 3
    /\ out[2].data.kind = "Video"
    /\ src # <<>>
    /\ Len(RecordsBytes(out)) + Len(src) = pos - 9

\* The length of the record at the front of the buffer the call was given.
CurrentRecordLength ==
    IF call.status = "PreTagSize" THEN 4 ELSE 11 + DeclaredSize(call.src)

\* The call was given the whole of the current record (and maybe more).
CurrentRecordBuffered ==
    /\ Decoded
    /\ call.status = "Tag" => Len(call.src) >= 11
    /\ Len(call.src) >= CurrentRecordLength

\* Bytes that may follow the current record in another buffer.
Trailers ==
    {<<>>, <<7>>, <<255, 255, 255, 255, 255>>,
     <<0, 0, 0, 0, 9, 0, 0, 1, 0, 0, 0, 0, 0, 0, 0, 23>>}

\* C14: decode does not look past the current record: on any other buffer
\* that starts with the same record bytes it returns the same result and the
\* same next state, consumes the same number of bytes, and leaves what
\* follows the consumed bytes as it was, in both buffers.
C14_NoLookAhead ==
    CurrentRecordBuffered =>
        LET record == SubSeq(call.src, 1, CurrentRecordLength)
            consumed == Len(call.src) - Len(src)
        IN /\ consumed <= CurrentRecordLength
           /\ src = advance(call.src, consumed)
           /\ \A t \in Trailers :
                 LET r == decode(call.status, record \o t)
                 IN /\ r.result = call.result
                    /\ r.status = status
                    /\ r.src = advance(record \o t, consumed)

\* A tag was emitted from a buffer that held bytes of later records too.
C14_Witness ==
    /\ CurrentRecordBuffered
    /\ EmittedTag
    /\ Len(call.src) > CurrentRecordLength + 4

\* A body error was returned from a buffer that held later bytes too.
C14_WitnessError ==
    /\ CurrentRecordBuffered
    /\ Returned("Err")
    /\ status = "PreTagSize"
    /\ Len(call.src) > CurrentRecordLength

\* The decode call had a whole tag with a valid header in the buffer.
ValidTagBuffered ==
    /\ CurrentRecordBuffered
    /\ call.status = "Tag"
    /\ StreamId(call.src) = <<0, 0, 0>>

\* C15: the tag type of a tag with a valid header is Audio for type byte 8,
\* Video for 9, Script for 18 and Reserved carrying the byte for every other
\* value; a Reserved tag is always emitted, with its body as it is.
C15_TagType ==
    /\ EmittedTag =>
          LET tt == call.src[1]
              type == call.result.item.header.tag_type
          IN CASE tt = 8 -> type = [tag |-> "Audio"]
               [] tt = 9 -> type = [tag |-> "Video"]
               [] tt = 18 -> type = [tag |-> "Script"]
               [] OTHER -> type = [tag |-> "Reserved", raw |-> tt]
    /\ (ValidTagBuffered /\ call.src[1] \notin {8, 9, 18}) =>
          /\ EmittedTag
          /\ call.result.item.data =
                [kind |-> "Reserved",
                 data |-> SubSeq(call.src, 12, 11 + DeclaredSize(call.src))]

\* Type byte 12 gave Reserved(12).
C15_Witness ==
    /\ EmittedTag
    /\ call.src[1] = 12
    /\ call.result.item.header.tag_type.raw = 12
    /\ call.result.item.data.data = <<23>>

\* Type byte 18 gave Script.
C15_WitnessScript ==
    /\ EmittedTag
    /\ call.src[1] = 18
    /\ call.result.item.header.tag_type.tag = "Script"

\* A Script tag declaring 0x010203 body bytes, whole: too long to be read in
\* chunks here, it is handed to the Tag arm directly.
LargeTag ==
    <<18, 1, 2, 3, 4, 5, 6, 200, 0, 0, 0>> \o [i \in 1..66051 |-> i % 256]
LargeTagDecoded == DecodeTag(LargeTag)

\* C16: the timestamp of a tag is the signed 32-bit value of the word whose
\* top byte is the extension byte (header offset 7) and whose low 24 bits are
\* the big-endian field at offsets 4-6, negative from extension 128 on; the
\* data size is s1 * 2^16 + s2 * 2^8 + s3 of offsets 1-3, below 2^24.
C16_TimestampAndSize ==
    /\ EmittedTag =>
          LET h == call.result.item.header
              ext == call.src[8]
              low == call.src[5] * 65536 + call.src[6] * 256 + call.src[7]
          IN /\ h.timestamp = (IF ext >= 128 THEN ext - 256 ELSE ext) * 16777216 + low
             /\ (h.timestamp < 0) <=> (ext >= 128)
             /\ h.timestamp % 16777216 = low
             /\ TimestampBytes(h.timestamp) = SubSeq(call.src, 5, 8)
             /\ as_usize(h.data_size) = DeclaredSize(call.src)
             /\ as_usize(h.data_size) < 16777216
    /\ LargeTagDecoded.result.kind = "Some"
    /\ LargeTagDecoded.result.item.header.data_size = [hi |-> 1, lo |-> 515]
    /\ LargeTagDecoded.result.item.header.timestamp = -939260666
    /\ Len(LargeTagDecoded.result.item.data.data) = 66051
    /\ LargeTagDecoded.src = <<>>

\* Extension 128 with a zero 24-bit field: the most negative timestamp.
C16_Witness ==
    /\ EmittedTag
    /\ SubSeq(call.src, 5, 8) = <<0, 0, 0, 128>>
    /\ call.result.item.header.timestamp = -2147483647 - 1

\* Extension 127 with all 24 bits set: the largest timestamp.
C16_WitnessMax ==
    /\ EmittedTag
    /\ SubSeq(call.src, 5, 8) = <<255, 255, 255, 127>>
    /\ call.result.item.header.timestamp = 2147483647

\* C17: whatever the header's data offset, tag decoding starts at file byte
\* 9, right after the nine header bytes: the reader stands there with an empty
\* buffer when open_flv returns, and the first PreTagSize is the big-endian
\* value of file bytes 9-12.
C17_DataOffsetIgnored ==
    /\ (call.op = "open" /\ pc = "run") => pos = 9 /\ src = <<>>
    /\ status # "NoDecoder" => pos >= 9
    /\ (status # "NoDecoder" /\ Len(out) >= 1) =>
          out[1] = [kind |-> "PreTagSize",
                    size |-> [hi |-> file[10] * 256 + file[11],
                              lo |-> file[12] * 256 + file[13]]]

\* The header says 0xFF00000D and the first PreTagSize is file bytes 9-12.
C17_Witness ==
    /\ header.offset = [hi |-> 65280, lo |-> 13]
    /\ Len(out) >= 1
    /\ out[1].size = [hi |-> 258, lo |-> 772]
    /\ SubSeq(file, 10, 13) = <<1, 2, 3, 4>>

\* The header says 0.
C17_WitnessZero ==
    /\ header.offset = [hi |-> 0, lo |-> 0]
    /\ Len(out) = 2

\* The decode call failed with the invalid-tag-header error.
HeaderRejected ==
    /\ Returned("Err")
    /\ call.result.err.msg = "Invalid tag header: {:?}"

\* C18: a decode call that fails with the invalid-tag-header error leaves
\* the buffer and the state as they were; decode on that buffer, as it is or
\* with more bytes appended, fails with the same error again, so no record
\* follows.
C18_HeaderErrorChangesNothing ==
    HeaderRejected =>
        /\ src = call.src
        /\ status = "Tag" /\ call.status = "Tag"
        /\ \A t \in Trailers :
              LET r == decode(status, src \o t)
              IN /\ r.result = call.result
                 /\ r.status = status
                 /\ r.src = src \o t
        /\ pc = "err" /\ error = call.result.err

\* The header was rejected after a tag had been emitted, with its body and
\* the next record buffered behind it.
C18_Witness ==
    /\ HeaderRejected
    /\ Len(out) >= 3
    /\ Len(src) > 11 + DeclaredSize(src)

\* C19: a decode call that fails on the first body byte of an Audio or Video
\* tag has already removed the tag's 11 + dataSize bytes from the buffer and
\* moved the state to PreTagSize; and the error comes only with the whole
\* body: on every shorter buffer holding the header the same tag gives
\* insufficient data.
C19_BodyErrorConsumesTheTag ==
    (Returned("Err") /\ ~HeaderRejected) =>
        LET n == 11 + DeclaredSize(call.src)
        IN /\ call.status = "Tag"
           /\ call.src[1] \in {8, 9}
           /\ Len(call.src) >= n
           /\ src = advance(call.src, n)
           /\ status = "PreTagSize"
           /\ call.result.err.msg \in {"error sound format: {}",
                                       "Invalid video frame type: {}",
                                       "Invalid codec id {}"}
           /\ \A k \in 11..(n - 1) :
                 LET r == decode("Tag", SubSeq(call.src, 1, k))
                 IN r.result.kind = "None" /\ r.src = SubSeq(call.src, 1, k)

\* A sound-format error on a two-byte body, with bytes buffered behind it.
C19_Witness ==
    /\ Returned("Err")
    /\ error.msg = "error sound format: {}"
    /\ DeclaredSize(call.src) = 2
    /\ status = "PreTagSize"
    /\ src # <<>>
    /\ Len(call.src) - Len(src) = 13

====
